---- MODULE Spec2Model ----
(***************************************************************************)
(* Model of the atm ledger (src/src/state.rs, src/src/transaction.rs).     *)
(*                                                                         *)
(* State::handle_transaction routes a Transaction to the Account of its    *)
(* client (creating it when missing) and Account::handle_transaction       *)
(* applies it.  Balances are u64; here the word is scaled down to          *)
(* 0..MaxU64 and arithmetic is done modulo MaxU64 + 1, so that the         *)
(* unchecked `+=` / `-=` of the source can overflow inside the bounds.     *)
(* An overflowing unchecked operation panics when the build has            *)
(* overflow-checks on (debug profile) and wraps otherwise (release).       *)
(***************************************************************************)
EXTENDS Integers, FiniteSets, Sequences, TLC

\* ---------------------------------------------------------------- bounds
\* Largest value of the (scaled-down) u64 word.
MaxU64 == 3
\* Transaction ids are 1..MaxTx.
MaxTx == 2
\* Number of rows of the input file.
MaxRows == 5

Modulus == MaxU64 + 1
U64 == 0..MaxU64
\* The client ids of the input: two, the accounts of different clients
\* being handled apart.
Client == {1, 2}
Tx == 1..MaxTx
\* Amounts carried by the Deposit and Withdrawal rows of the input: a small
\* one and the largest the word holds.
Amounts == {1, MaxU64}

\* ------------------------------------------------------- transaction.rs
\* enum Action: Deposit(u64) | Withdrawal(u64) | Dispute | Resolve | ChargeBack
Action ==
  [kind : {"Deposit", "Withdrawal"}, amount : U64]
    \cup [kind : {"Dispute", "Resolve", "ChargeBack"}]

\* struct Transaction { client, tx, detail }
Transaction == [client : Client, tx : Tx, detail : Action]

\* Action::from_type_and_amount reports every mismatch with this string.
ErrInvalidType == "Invalid transaction type"

\* The type column of a row: the five known names, and names that differ
\* in case, are unknown or are empty.
RowTypes ==
  {"deposit", "withdrawal", "dispute", "resolve", "chargeback",
   "Deposit", "transfer", ""}

\* The amount column, Option<f64>: <<>> is None and <<h>> is Some of the
\* amount of h halves of a ten-thousandth (negative, between two
\* ten-thousandths and beyond the word included).
RowAmounts ==
  {<<>>} \cup {<<h>> : h \in {-3, -1, 0, 1, 2, 3, 2 * MaxU64, 2 * MaxU64 + 3}}

\* struct TransactionRow { type_, client, tx, amount }
TransactionRow ==
  [type_ : RowTypes, client : Client, tx : Tx, amount : RowAmounts]

\* convert_amount: (amount * 10_000.0).round() as u64, on an amount of h
\* halves of a ten-thousandth: round halves away from zero, then the
\* saturating cast of `as`.
convert_amount(h) ==
  LET rounded == IF h >= 0 THEN (h + 1) \div 2 ELSE 0 - ((1 - h) \div 2) IN
  IF rounded < 0 THEN 0 ELSE IF rounded > MaxU64 THEN MaxU64 ELSE rounded

\* from_type_and_amount that leaves out the amount of the pattern for the
\* three types that carry none.
from_type_and_amount_Tolerant(type_, amount) ==
  CASE type_ = "deposit" /\ amount # <<>> ->
         [ok |-> TRUE,
          value |-> [kind |-> "Deposit", amount |-> convert_amount(amount[1])]]
    [] type_ = "withdrawal" /\ amount # <<>> ->
         [ok |-> TRUE,
          value |-> [kind |-> "Withdrawal",
                     amount |-> convert_amount(amount[1])]]
    [] type_ = "dispute" -> [ok |-> TRUE, value |-> [kind |-> "Dispute"]]
    [] type_ = "resolve" -> [ok |-> TRUE, value |-> [kind |-> "Resolve"]]
    [] type_ = "chargeback" ->
         [ok |-> TRUE, value |-> [kind |-> "ChargeBack"]]
    [] OTHER -> [ok |-> FALSE, error |-> ErrInvalidType]

\* from_type_and_amount that reads a missing amount as zero.
from_type_and_amount_ZeroDefault(type_, amount) ==
  LET given == IF amount = <<>> THEN 0 ELSE convert_amount(amount[1]) IN
  CASE type_ = "deposit" ->
         [ok |-> TRUE, value |-> [kind |-> "Deposit", amount |-> given]]
    [] type_ = "withdrawal" ->
         [ok |-> TRUE, value |-> [kind |-> "Withdrawal", amount |-> given]]
    [] type_ = "dispute" /\ amount = <<>> ->
         [ok |-> TRUE, value |-> [kind |-> "Dispute"]]
    [] type_ = "resolve" /\ amount = <<>> ->
         [ok |-> TRUE, value |-> [kind |-> "Resolve"]]
    [] type_ = "chargeback" /\ amount = <<>> ->
         [ok |-> TRUE, value |-> [kind |-> "ChargeBack"]]
    [] OTHER -> [ok |-> FALSE, error |-> ErrInvalidType]

\* Action::from_type_and_amount
from_type_and_amount(type_, amount) ==
  CASE type_ = "deposit" /\ amount # <<>> ->
         [ok |-> TRUE,
          value |-> [kind |-> "Deposit", amount |-> convert_amount(amount[1])]]
    [] type_ = "withdrawal" /\ amount # <<>> ->
         [ok |-> TRUE,
          value |-> [kind |-> "Withdrawal",
                     amount |-> convert_amount(amount[1])]]
    [] type_ = "dispute" /\ amount = <<>> ->
         [ok |-> TRUE, value |-> [kind |-> "Dispute"]]
    [] type_ = "resolve" /\ amount = <<>> ->
         [ok |-> TRUE, value |-> [kind |-> "Resolve"]]
    [] type_ = "chargeback" /\ amount = <<>> ->
         [ok |-> TRUE, value |-> [kind |-> "ChargeBack"]]
    [] OTHER -> [ok |-> FALSE, error |-> ErrInvalidType]

\* impl TryFrom<TransactionRow> for Transaction
try_from(value) ==
  LET detail == from_type_and_amount(value.type_, value.amount) IN
  IF ~detail.ok THEN detail
  ELSE [ok |-> TRUE,
        value |-> [client |-> value.client, tx |-> value.tx,
                   detail |-> detail.value]]

\* --------------------------------------------------------------- state.rs
\* The error strings returned by the handlers (their fixed prefixes).
ErrNotFound == "Transaction was not found"
ErrNotDisputed == "Transaction is not under dispute"
ErrAlreadyDisputed == "Transaction is already under dispute"
ErrExists == "Transaction already exists"
ErrWithdrawal == "Insufficient funds for withdrawal"
ErrDispute == "Insufficient funds to dispute transaction"
ErrOtherClient == "Transaction cannot be applied to client"
ErrLocked == "Cannot apply transaction because client account is locked"
Errors ==
  {ErrNotFound, ErrNotDisputed, ErrAlreadyDisputed, ErrExists,
   ErrWithdrawal, ErrDispute, ErrOtherClient, ErrLocked}
\* Ok(()) and the outcome of an arithmetic-overflow panic.
Ok == "Ok"
Panic == "panic"

VARIABLES
  accounts,         \* State.accounts : HashMap<Client, Account>
  overflow_checks,  \* build profile: TRUE = overflow panics, FALSE = wraps
  pc,               \* "running", "done" after write_csv, "aborted" after a panic
  add_overflowed,   \* an unchecked addition of the last call overflowed
  sub_underflowed,  \* an unchecked subtraction of the last call underflowed
  rows,             \* rows of the input consumed by the loop of main
  summary,          \* the records write_csv has handed to the writer
  row,              \* <<r>>: the TransactionRow r handed to try_from
  validated         \* <<v>>: the Result try_from returned for it

vars ==
  <<accounts, overflow_checks, pc, add_overflowed, sub_underflowed, rows,
    summary, row, validated>>

\* Account::new that opens the account with one ten-thousandth available.
NewAccount_Funded(client) ==
  [client |-> client, held |-> 0, available |-> 1, locked |-> FALSE,
   transactions |-> <<>>]

\* Account::new
NewAccount(client) ==
  [client |-> client, held |-> 0, available |-> 0, locked |-> FALSE,
   transactions |-> <<>>]

\* Outcome of a handler: the account as the call left it, the return
\* value, and whether unchecked arithmetic left the word.
Outcome(acct, res, ovf, unf) ==
  [acct |-> acct, res |-> res, ovf |-> ovf, unf |-> unf]

\* lookup_transaction that finds the record but does not compare its flag
\* with the expected one.
lookup_transaction_NoFlag(acct, tx, expect_disputed) ==
  IF tx \notin DOMAIN acct.transactions THEN ErrNotFound ELSE Ok

\* Account::lookup_transaction: Ok or the error it returns.
lookup_transaction(acct, tx, expect_disputed) ==
  IF tx \notin DOMAIN acct.transactions THEN ErrNotFound
  ELSE IF expect_disputed /\ ~acct.transactions[tx].under_dispute
    THEN ErrNotDisputed
  ELSE IF ~expect_disputed /\ acct.transactions[tx].under_dispute
    THEN ErrAlreadyDisputed
  ELSE Ok

\* check_transaction_is_new that accepts every tx.
check_transaction_is_new_Always(acct, tx) == Ok

\* Account::check_transaction_is_new
check_transaction_is_new(acct, tx) ==
  IF tx \in DOMAIN acct.transactions THEN ErrExists ELSE Ok

\* u64::checked_sub: TRUE when the subtraction stays in the word.
checked_sub_some(a, b) == a >= b

\* Deposit arm of Account::handle_valid_transaction.
HandleDeposit(acct, tx, amount, checks) ==
  IF check_transaction_is_new(acct, tx) # Ok
    THEN Outcome(acct, ErrExists, FALSE, FALSE)
  ELSE
    LET ovf == acct.available + amount > MaxU64 IN
    IF ovf /\ checks THEN Outcome(acct, Panic, TRUE, FALSE)
    ELSE Outcome(
      [acct EXCEPT
         !.available = (acct.available + amount) % Modulus,
         !.transactions =
            (tx :> [amount |-> amount, under_dispute |-> FALSE]) @@ @],
      Ok, ovf, FALSE)

\* Withdrawal arm with an insufficient withdrawal that pays out what is
\* there before it reports the error.
HandleWithdrawal_Clamp(acct, tx, amount, checks) ==
  IF check_transaction_is_new(acct, tx) # Ok
    THEN [acct |-> acct, res |-> ErrExists, ovf |-> FALSE, unf |-> FALSE]
  ELSE IF ~checked_sub_some(acct.available, amount)
    THEN [acct |-> [acct EXCEPT !.available = 0], res |-> ErrWithdrawal,
          ovf |-> FALSE, unf |-> FALSE]
  ELSE [acct |-> [acct EXCEPT !.available = @ - amount], res |-> Ok,
        ovf |-> FALSE, unf |-> FALSE]

\* Withdrawal arm that also refuses to withdraw all that is available.
HandleWithdrawal_Strict(acct, tx, amount, checks) ==
  IF check_transaction_is_new(acct, tx) # Ok
    THEN [acct |-> acct, res |-> ErrExists, ovf |-> FALSE, unf |-> FALSE]
  ELSE IF acct.available <= amount
    THEN [acct |-> acct, res |-> ErrWithdrawal, ovf |-> FALSE, unf |-> FALSE]
  ELSE [acct |-> [acct EXCEPT !.available = @ - amount], res |-> Ok,
        ovf |-> FALSE, unf |-> FALSE]

\* Withdrawal arm that keeps a record of the accepted withdrawal.
HandleWithdrawal_Recorded(acct, tx, amount, checks) ==
  IF check_transaction_is_new(acct, tx) # Ok
    THEN Outcome(acct, ErrExists, FALSE, FALSE)
  ELSE IF ~checked_sub_some(acct.available, amount)
    THEN Outcome(acct, ErrWithdrawal, FALSE, FALSE)
  ELSE Outcome(
    [acct EXCEPT
       !.available = @ - amount,
       !.transactions =
          (tx :> [amount |-> amount, under_dispute |-> FALSE]) @@ @],
    Ok, FALSE, FALSE)

\* Withdrawal arm.
HandleWithdrawal(acct, tx, amount, checks) ==
  IF check_transaction_is_new(acct, tx) # Ok
    THEN Outcome(acct, ErrExists, FALSE, FALSE)
  ELSE IF ~checked_sub_some(acct.available, amount)
    THEN Outcome(acct, ErrWithdrawal, FALSE, FALSE)
  ELSE Outcome([acct EXCEPT !.available = @ - amount], Ok, FALSE, FALSE)

\* Dispute arm that marks the record before it checks the funds.
HandleDispute_MarkFirst(acct, tx, checks) ==
  LET found == lookup_transaction(acct, tx, FALSE) IN
  IF found # Ok
    THEN [acct |-> acct, res |-> found, ovf |-> FALSE, unf |-> FALSE]
  ELSE
    LET amount == acct.transactions[tx].amount
        flagged == [acct EXCEPT !.transactions[tx].under_dispute = TRUE]
    IN
    IF ~checked_sub_some(acct.available, amount)
      THEN [acct |-> flagged, res |-> ErrDispute,
            ovf |-> FALSE, unf |-> FALSE]
    ELSE
      LET ovf == acct.held + amount > MaxU64 IN
      IF ovf /\ checks
        THEN [acct |-> [flagged EXCEPT !.available = @ - amount],
              res |-> Panic, ovf |-> TRUE, unf |-> FALSE]
      ELSE [acct |-> [flagged EXCEPT !.available = @ - amount,
                                     !.held = (@ + amount) % Modulus],
            res |-> Ok, ovf |-> ovf, unf |-> FALSE]

\* Dispute arm that compares the amount with available before it looks
\* at the dispute flag of the record.
HandleDispute_FundsFirst(acct, tx, checks) ==
  IF tx \notin DOMAIN acct.transactions
    THEN Outcome(acct, ErrNotFound, FALSE, FALSE)
  ELSE
    LET amount == acct.transactions[tx].amount IN
    IF ~checked_sub_some(acct.available, amount)
      THEN Outcome(acct, ErrDispute, FALSE, FALSE)
    ELSE IF acct.transactions[tx].under_dispute
      THEN Outcome(acct, ErrAlreadyDisputed, FALSE, FALSE)
    ELSE
      LET marked ==
            [acct EXCEPT !.transactions[tx].under_dispute = TRUE,
                         !.available = @ - amount]
          ovf == acct.held + amount > MaxU64
      IN
      IF ovf /\ checks THEN Outcome(marked, Panic, TRUE, FALSE)
      ELSE Outcome(
        [marked EXCEPT !.held = (@ + amount) % Modulus], Ok, ovf, FALSE)

\* Dispute arm.
HandleDispute(acct, tx, checks) ==
  LET found == lookup_transaction(acct, tx, FALSE) IN
  IF found # Ok THEN Outcome(acct, found, FALSE, FALSE)
  ELSE
    LET amount == acct.transactions[tx].amount IN
    IF ~checked_sub_some(acct.available, amount)
      THEN Outcome(acct, ErrDispute, FALSE, FALSE)
    ELSE
      LET marked ==
            [acct EXCEPT !.transactions[tx].under_dispute = TRUE,
                         !.available = @ - amount]
          ovf == acct.held + amount > MaxU64
      IN
      IF ovf /\ checks THEN Outcome(marked, Panic, TRUE, FALSE)
      ELSE Outcome(
        [marked EXCEPT !.held = (@ + amount) % Modulus], Ok, ovf, FALSE)

\* Resolve arm that leaves the record under dispute.
HandleResolve_KeepFlag(acct, tx, checks) ==
  LET found == lookup_transaction(acct, tx, TRUE) IN
  IF found # Ok THEN Outcome(acct, found, FALSE, FALSE)
  ELSE
    LET amount == acct.transactions[tx].amount
        unf == acct.held < amount
        released == [acct EXCEPT !.held = (@ - amount) % Modulus]
        ovf == acct.available + amount > MaxU64
    IN
    IF unf /\ checks THEN Outcome(acct, Panic, FALSE, TRUE)
    ELSE IF ovf /\ checks THEN Outcome(released, Panic, TRUE, unf)
    ELSE Outcome(
      [released EXCEPT !.available = (@ + amount) % Modulus], Ok, ovf, unf)

\* Resolve arm.
HandleResolve(acct, tx, checks) ==
  LET found == lookup_transaction(acct, tx, TRUE) IN
  IF found # Ok THEN Outcome(acct, found, FALSE, FALSE)
  ELSE
    LET amount == acct.transactions[tx].amount
        cleared == [acct EXCEPT !.transactions[tx].under_dispute = FALSE]
        unf == acct.held < amount
        released == [cleared EXCEPT !.held = (@ - amount) % Modulus]
        ovf == acct.available + amount > MaxU64
    IN
    IF unf /\ checks THEN Outcome(cleared, Panic, FALSE, TRUE)
    ELSE IF ovf /\ checks THEN Outcome(released, Panic, TRUE, unf)
    ELSE Outcome(
      [released EXCEPT !.available = (@ + amount) % Modulus], Ok, ovf, unf)

\* ChargeBack arm that releases the held amount and leaves the account
\* open.
HandleChargeBack_NoLock(acct, tx, checks) ==
  LET found == lookup_transaction(acct, tx, TRUE) IN
  IF found # Ok THEN Outcome(acct, found, FALSE, FALSE)
  ELSE
    LET amount == acct.transactions[tx].amount
        unf == acct.held < amount
    IN
    IF unf /\ checks THEN Outcome(acct, Panic, FALSE, TRUE)
    ELSE Outcome(
      [acct EXCEPT !.held = (@ - amount) % Modulus], Ok, FALSE, unf)

\* ChargeBack arm.
HandleChargeBack(acct, tx, checks) ==
  LET found == lookup_transaction(acct, tx, TRUE) IN
  IF found # Ok THEN Outcome(acct, found, FALSE, FALSE)
  ELSE
    LET amount == acct.transactions[tx].amount
        unf == acct.held < amount
    IN
    IF unf /\ checks THEN Outcome(acct, Panic, FALSE, TRUE)
    ELSE Outcome(
      [acct EXCEPT !.held = (@ - amount) % Modulus, !.locked = TRUE],
      Ok, FALSE, unf)

\* Account::handle_valid_transaction
handle_valid_transaction(acct, t, checks) ==
  CASE t.detail.kind = "Deposit" ->
         HandleDeposit(acct, t.tx, t.detail.amount, checks)
    [] t.detail.kind = "Withdrawal" ->
         HandleWithdrawal(acct, t.tx, t.detail.amount, checks)
    [] t.detail.kind = "Dispute" -> HandleDispute(acct, t.tx, checks)
    [] t.detail.kind = "Resolve" -> HandleResolve(acct, t.tx, checks)
    [] t.detail.kind = "ChargeBack" -> HandleChargeBack(acct, t.tx, checks)

\* Account::handle_transaction without the check of the lock.
account_handle_transaction_NoLock(acct, t, checks) ==
  IF acct.client # t.client
    THEN [acct |-> acct, res |-> ErrOtherClient, ovf |-> FALSE, unf |-> FALSE]
  ELSE handle_valid_transaction(acct, t, checks)

\* Account::handle_transaction
account_handle_transaction(acct, t, checks) ==
  IF acct.client # t.client THEN Outcome(acct, ErrOtherClient, FALSE, FALSE)
  ELSE IF acct.locked THEN Outcome(acct, ErrLocked, FALSE, FALSE)
  ELSE handle_valid_transaction(acct, t, checks)

\* entry(client).or_insert_with that builds the new account for another
\* client than the key.
or_insert_with_OtherClient(accts, client) ==
  IF client \in DOMAIN accts THEN accts
  ELSE (client :> NewAccount(CHOOSE d \in Client : d # client)) @@ accts

\* accounts.entry(client).or_insert_with(|| Account::new(client))
or_insert_with(accts, client) ==
  IF client \in DOMAIN accts THEN accts
  ELSE (client :> NewAccount(client)) @@ accts

\* State::handle_transaction as a function of the map: the map and the
\* outcome it produces.
Apply(accts, t, checks) ==
  LET entered == or_insert_with(accts, t.client)
      out == account_handle_transaction(entered[t.client], t, checks)
  IN [accounts |-> [entered EXCEPT ![t.client] = out.acct],
      res |-> out.res, ovf |-> out.ovf, unf |-> out.unf]

\* accounts.sort_by_key(|a| a.client) on the values of the map: the clients
\* of the accounts in ascending order.
RECURSIVE sort_by_key(_)
sort_by_key(clients) ==
  IF clients = {} THEN <<>>
  ELSE LET least == CHOOSE c \in clients : \A d \in clients : c <= d IN
       <<least>> \o sort_by_key(clients \ {least})

\* The record write_csv builds for one account; the three amounts are the
\* arguments it hands to convert_from_thousandths.
Record(acct) ==
  [client |-> acct.client, available |-> acct.available,
   held |-> acct.held,
   total |-> (acct.available + acct.held) % Modulus,
   locked |-> acct.locked]

\* State::write_csv after the header: the records written, in order, up to
\* the first account whose total leaves the word when that panics.
RECURSIVE write_records(_, _, _)
write_records(accts, order, checks) ==
  IF order = <<>> THEN [records |-> <<>>, res |-> Ok, ovf |-> FALSE]
  ELSE
    LET acct == accts[Head(order)]
        ovf == acct.available + acct.held > MaxU64
    IN
    IF ovf /\ checks THEN [records |-> <<>>, res |-> Panic, ovf |-> TRUE]
    ELSE
      LET rest == write_records(accts, Tail(order), checks) IN
      [records |-> <<Record(acct)>> \o rest.records, res |-> rest.res,
       ovf |-> ovf \/ rest.ovf]

write_csv(accts, checks) ==
  write_records(accts, sort_by_key(DOMAIN accts), checks)

\* State::new, before the first row is read.
Init ==
  /\ accounts = <<>>
  /\ overflow_checks \in BOOLEAN
  /\ pc = "running"
  /\ add_overflowed = FALSE
  /\ sub_underflowed = FALSE
  /\ rows = 0
  /\ summary = <<>>
  /\ row = <<>>
  /\ validated = <<>>

\* One turn of the loop of main: it calls State::handle_transaction and
\* drops the Result; a panic of the call ends the process.
HandleTransaction(t) ==
  /\ pc = "running"
  /\ rows < MaxRows
  /\ rows' = rows + 1
  /\ LET r == Apply(accounts, t, overflow_checks) IN
       /\ accounts' = r.accounts
       /\ add_overflowed' = r.ovf
       /\ sub_underflowed' = r.unf
       /\ pc' = IF r.res = Panic THEN "aborted" ELSE "running"
  /\ UNCHANGED <<overflow_checks, summary, row, validated>>

Deposit ==
  \E c \in Client, tx \in Tx, amount \in Amounts :
    HandleTransaction(
      [client |-> c, tx |-> tx,
       detail |-> [kind |-> "Deposit", amount |-> amount]])

Withdrawal ==
  \E c \in Client, tx \in Tx, amount \in Amounts :
    HandleTransaction(
      [client |-> c, tx |-> tx,
       detail |-> [kind |-> "Withdrawal", amount |-> amount]])

Dispute ==
  \E c \in Client, tx \in Tx :
    HandleTransaction(
      [client |-> c, tx |-> tx, detail |-> [kind |-> "Dispute"]])

Resolve ==
  \E c \in Client, tx \in Tx :
    HandleTransaction(
      [client |-> c, tx |-> tx, detail |-> [kind |-> "Resolve"]])

ChargeBack ==
  \E c \in Client, tx \in Tx :
    HandleTransaction(
      [client |-> c, tx |-> tx, detail |-> [kind |-> "ChargeBack"]])

\* The input is exhausted: main writes the summary and ends.
WriteCsv ==
  /\ pc = "running"
  /\ LET w == write_csv(accounts, overflow_checks) IN
       /\ summary' = w.records
       /\ add_overflowed' = w.ovf
       /\ pc' = IF w.res = Panic THEN "aborted" ELSE "done"
  /\ sub_underflowed' = FALSE
  /\ UNCHANGED <<accounts, overflow_checks, rows, row, validated>>

Next ==
  Deposit \/ Withdrawal \/ Dispute \/ Resolve \/ ChargeBack \/ WriteCsv

Spec == Init /\ [][Next]_vars

\* main's loop takes the next row while the reader has one and then
\* writes the summary: the run does not stall while a step is possible.
FairSpec == Spec /\ WF_vars(Next)

\* -------------------------------------------------- validation of the rows
\* A row of the input, before it is converted.
InitValidate ==
  /\ accounts = <<>>
  /\ overflow_checks = FALSE
  /\ pc = "running"
  /\ add_overflowed = FALSE
  /\ sub_underflowed = FALSE
  /\ rows = 0
  /\ summary = <<>>
  /\ row \in {<<r>> : r \in TransactionRow}
  /\ validated = <<>>

\* Transaction::try_from(row)
TryFrom ==
  /\ row # <<>>
  /\ validated = <<>>
  /\ validated' = <<try_from(row[1])>>
  /\ UNCHANGED <<accounts, overflow_checks, pc, add_overflowed,
                 sub_underflowed, rows, summary, row>>

SpecValidate == InitValidate /\ [][TryFrom]_vars

\* ------------------------------------------------------------ properties
\* "The total amount of all transactions under dispute" of the Account
\* invariant: the exact sum of the amounts of the records under dispute.
RECURSIVE SumAmounts(_, _)
SumAmounts(txs, S) ==
  IF S = {} THEN 0
  ELSE LET x == CHOOSE y \in S : TRUE IN
       txs[x].amount + SumAmounts(txs, S \ {x})

DisputedTotal(acct) ==
  SumAmounts(acct.transactions,
             {tx \in DOMAIN acct.transactions :
                acct.transactions[tx].under_dispute})

\* The transactions the rows of the input can carry.
Inputs ==
  [client : Client, tx : Tx,
   detail : [kind : {"Deposit", "Withdrawal"}, amount : Amounts]
              \cup [kind : {"Dispute", "Resolve", "ChargeBack"}]]

InputsOf(kinds) == {t \in Inputs : t.detail.kind \in kinds}

\* What State::handle_transaction does with t in the current state.
Result(t) == Apply(accounts, t, overflow_checks)

\* main is in its loop and the reader has a row left:
\* State::handle_transaction is called next.
Reading == pc = "running" /\ rows < MaxRows

\* The account a call for client c works on: the stored one, or the new
\* one that the call inserts.
AccountOf(c) == or_insert_with(accounts, c)[c]

\* t names a record of the account of its client.
HasRecord(t) ==
  /\ t.client \in DOMAIN accounts
  /\ t.tx \in DOMAIN accounts[t.client].transactions

\* C1: in every state reached by applying transactions, every account that
\* is not locked has held equal to the sum of the amounts of its deposit
\* records under dispute.
C1_HeldEqualsDisputed ==
  pc = "running" =>
    \A c \in DOMAIN accounts :
      ~accounts[c].locked => accounts[c].held = DisputedTotal(accounts[c])

\* C2: available and held never go below zero: a subtraction that would do
\* so is rejected, so no subtraction of a call ever underflows.
C2_NoSubtractionUnderflows ==
  /\ ~sub_underflowed
  /\ \A c \in DOMAIN accounts :
       accounts[c].available >= 0 /\ accounts[c].held >= 0

\* C3 (as stated): whenever the call returns an error, the whole map of
\* accounts is identical to the one before the call.
C3_ErrorLeavesLedgerIdentical ==
  Reading =>
    \A t \in Inputs :
      Result(t).res \in Errors => Result(t).accounts = accounts

\* C3 (amended): whenever the call returns an error, every account that
\* existed keeps its fields and no account is removed; the only change is
\* that a client that had no account now has the empty account.
C3_ErrorOnlyInsertsEmptyAccount ==
  Reading =>
    \A t \in Inputs :
      Result(t).res \in Errors =>
        Result(t).accounts = or_insert_with(accounts, t.client)

\* A rejected first transaction of a client has left its empty account next
\* to an account with funds, and a withdrawal from that account is about to
\* be rejected.
C3_Witness ==
  /\ Reading
  /\ \E c \in DOMAIN accounts : accounts[c] = NewAccount(c)
  /\ \E t \in InputsOf({"Withdrawal"}) :
       /\ t.client \in DOMAIN accounts
       /\ accounts[t.client].available > 0
       /\ Result(t).res = ErrWithdrawal

\* C4: once an account is locked, every later transaction for its client
\* is rejected with the locked error, and no transaction of any client
\* changes the account's available, held, locked or deposit records.
C4_LockedAccountFrozen ==
  Reading =>
    \A c \in DOMAIN accounts :
      accounts[c].locked =>
        \A t \in Inputs :
          /\ Result(t).accounts[c] = accounts[c]
          /\ (t.client = c => Result(t).res = ErrLocked)

\* A charged-back account that still has funds and an undisputed deposit:
\* its withdrawals, disputes and deposits would be accepted but for the lock.
C4_Witness ==
  /\ Reading
  /\ \E c \in DOMAIN accounts :
       /\ accounts[c].locked
       /\ accounts[c].available > 0
       /\ \E tx \in DOMAIN accounts[c].transactions :
            ~accounts[c].transactions[tx].under_dispute

\* C5 (as stated): a Deposit whose tx already keys a record of the account
\* is rejected with the already-exists error whatever its amount, and the
\* ledger is unchanged.
C5_DuplicateDepositRejected ==
  Reading =>
    \A t \in InputsOf({"Deposit"}) :
      HasRecord(t) =>
        Result(t).res = ErrExists /\ Result(t).accounts = accounts

\* C5 (amended): such a Deposit is rejected and changes nothing; the error
\* is the already-exists one when the account is not locked and the locked
\* one when it is.
C5_DuplicateDepositRejectedOrLocked ==
  Reading =>
    \A t \in InputsOf({"Deposit"}) :
      HasRecord(t) =>
        /\ Result(t).accounts = accounts
        /\ Result(t).res =
             IF accounts[t.client].locked THEN ErrLocked ELSE ErrExists

\* A duplicate of a deposit under dispute, carrying another amount.
C5_Witness ==
  /\ Reading
  /\ \E t \in InputsOf({"Deposit"}) :
       /\ HasRecord(t)
       /\ accounts[t.client].transactions[t.tx].under_dispute
       /\ accounts[t.client].transactions[t.tx].amount # t.detail.amount
       /\ Result(t).res = ErrExists

\* C6: on an unlocked account a Withdrawal is rejected as a duplicate when
\* its tx keys a record, else rejected for insufficient funds when its
\* amount exceeds available, else accepted with available decreased by the
\* amount and held, locked and the records unchanged.
C6_Withdrawal ==
  Reading =>
    \A t \in InputsOf({"Withdrawal"}) :
      LET c == t.client
          acct == AccountOf(c)
          amount == t.detail.amount
      IN ~acct.locked =>
           IF t.tx \in DOMAIN acct.transactions
             THEN Result(t).res = ErrExists /\ Result(t).accounts[c] = acct
           ELSE IF amount > acct.available
             THEN Result(t).res = ErrWithdrawal
                  /\ Result(t).accounts[c] = acct
           ELSE /\ Result(t).res = Ok
                /\ Result(t).accounts[c] =
                     [acct EXCEPT !.available = acct.available - amount]

\* An accepted withdrawal of part of the funds of a deposit; it adds no
\* record of its own.
C6_Witness ==
  /\ Reading
  /\ \E t \in InputsOf({"Withdrawal"}) :
       /\ Result(t).res = Ok
       /\ Result(t).accounts[t.client].available > 0
       /\ Result(t).accounts[t.client].transactions # <<>>
       /\ t.tx \notin DOMAIN Result(t).accounts[t.client].transactions

\* C7: on an unlocked account a Dispute of an existing, undisputed deposit
\* of amount a is rejected for insufficient funds when a > available, and
\* otherwise moves exactly a from available to held and marks the record.
C7_Dispute ==
  Reading =>
    \A t \in InputsOf({"Dispute"}) :
      LET c == t.client
          acct == AccountOf(c)
      IN (/\ ~acct.locked
          /\ t.tx \in DOMAIN acct.transactions
          /\ ~acct.transactions[t.tx].under_dispute) =>
           LET a == acct.transactions[t.tx].amount IN
           IF a > acct.available
             THEN Result(t).res = ErrDispute /\ Result(t).accounts[c] = acct
           ELSE /\ Result(t).res = Ok
                /\ Result(t).accounts[c] =
                     [acct EXCEPT !.available = acct.available - a,
                                  !.held = acct.held + a,
                                  !.transactions[t.tx].under_dispute = TRUE]

\* C8: on an unlocked account a Resolve or ChargeBack naming an undisputed
\* record is rejected as not under dispute, one naming no record as not
\* found, and the account is unchanged (not locked in particular).
C8_ResolveChargeBackRejected ==
  Reading =>
    \A t \in InputsOf({"Resolve", "ChargeBack"}) :
      LET c == t.client
          acct == AccountOf(c)
      IN ~acct.locked =>
           /\ t.tx \notin DOMAIN acct.transactions =>
                Result(t).res = ErrNotFound /\ Result(t).accounts[c] = acct
           /\ (/\ t.tx \in DOMAIN acct.transactions
               /\ ~acct.transactions[t.tx].under_dispute) =>
                Result(t).res = ErrNotDisputed
                /\ Result(t).accounts[c] = acct

\* A ChargeBack of a deposit that was never disputed, while another deposit
\* of the account is under dispute, and a Resolve of a tx without record.
C8_Witness ==
  /\ Reading
  /\ \E t \in InputsOf({"ChargeBack"}) :
       /\ Result(t).res = ErrNotDisputed
       /\ accounts[t.client].held > 0
  /\ \E t \in InputsOf({"Resolve"}) :
       /\ Result(t).res = ErrNotFound
       /\ t.client \in DOMAIN accounts

\* C9: an accepted ChargeBack of a disputed deposit of amount a decreases
\* held by exactly a, locks the account, and leaves available and the
\* record (amount, under dispute) as they were.
C9_ChargeBack ==
  Reading =>
    \A t \in InputsOf({"ChargeBack"}) :
      Result(t).res = Ok =>
        LET c == t.client
            acct == AccountOf(c)
            a == acct.transactions[t.tx].amount
        IN /\ Result(t).accounts[c].held = acct.held - a
           /\ Result(t).accounts[c].locked
           /\ Result(t).accounts[c].available = acct.available
           /\ Result(t).accounts[c].transactions = acct.transactions
           /\ acct.transactions[t.tx].under_dispute

\* C10: when a transaction is rejected and the same transaction is applied
\* again at once, it is rejected with the same error and the ledger after
\* the second call equals the ledger after the first.
C10_RejectionIdempotent ==
  Reading =>
    \A t \in Inputs :
      LET first == Result(t) IN
      first.res \in Errors =>
        LET second == Apply(first.accounts, t, overflow_checks) IN
        second.res = first.res /\ second.accounts = first.accounts

\* A Dispute rejected for insufficient funds on an account with records:
\* the rejection that would drift if it marked the record.
C10_Witness ==
  /\ Reading
  /\ \E t \in InputsOf({"Dispute"}) :
       /\ HasRecord(t)
       /\ Result(t).res = ErrDispute

\* C11: the summary has exactly one record per account of the ledger, in
\* strictly ascending order of client, each holding the account's client,
\* available, held, available + held and locked; producing it changes no
\* account.
C11_Summary ==
  /\ [](pc = "done" =>
         /\ {summary[i].client : i \in DOMAIN summary} = DOMAIN accounts
         /\ Len(summary) = Cardinality(DOMAIN accounts)
         /\ \A i \in DOMAIN summary, j \in DOMAIN summary :
              i < j => summary[i].client < summary[j].client
         /\ \A i \in DOMAIN summary :
              LET acct == accounts[summary[i].client] IN
              /\ summary[i].available = acct.available
              /\ summary[i].held = acct.held
              /\ summary[i].total = acct.available + acct.held
              /\ summary[i].locked = acct.locked)
  /\ [][pc' = "done" => accounts' = accounts]_vars

\* The row has been converted, and its type is one of those without amount.
ConvertedNoAmountType ==
  /\ validated # <<>>
  /\ row[1].type_ \in {"dispute", "resolve", "chargeback"}

KindOf(type_) ==
  CASE type_ = "deposit" -> "Deposit"
    [] type_ = "withdrawal" -> "Withdrawal"
    [] type_ = "dispute" -> "Dispute"
    [] type_ = "resolve" -> "Resolve"
    [] type_ = "chargeback" -> "ChargeBack"

\* C12 (as stated): a dispute, resolve or chargeback row that carries an
\* amount is converted to the Dispute, Resolve or ChargeBack action, the
\* amount being ignored.
C12_AmountIgnored ==
  (ConvertedNoAmountType /\ row[1].amount # <<>>) =>
    /\ validated[1].ok
    /\ validated[1].value.detail = [kind |-> KindOf(row[1].type_)]

\* C12 (amended): a dispute, resolve or chargeback row that carries an
\* amount is rejected with the invalid-type error and yields no
\* Transaction.
C12_AmountRejected ==
  (ConvertedNoAmountType /\ row[1].amount # <<>>) =>
    validated[1] = [ok |-> FALSE, error |-> ErrInvalidType]

\* A dispute row with an amount that is a whole number of ten-thousandths
\* has been converted.
C12_Witness ==
  /\ ConvertedNoAmountType
  /\ row[1].type_ = "dispute"
  /\ row[1].amount = <<2>>
  /\ ~validated[1].ok

\* C13: the conversion fails for deposit or withdrawal without amount and
\* for every type other than the five names, and otherwise yields the
\* matching action with client and tx of the row: Deposit or Withdrawal for
\* a row with amount, Dispute, Resolve or ChargeBack for one without.
C13_Validate ==
  validated # <<>> =>
    LET r == row[1]
        v == validated[1]
    IN
    /\ (r.type_ \in {"deposit", "withdrawal"} /\ r.amount = <<>>) => ~v.ok
    /\ r.type_ \notin
         {"deposit", "withdrawal", "dispute", "resolve", "chargeback"}
           => ~v.ok
    /\ (r.type_ \in {"deposit", "withdrawal"} /\ r.amount # <<>>) =>
         /\ v.ok
         /\ v.value.client = r.client
         /\ v.value.tx = r.tx
         /\ v.value.detail.kind = KindOf(r.type_)
    /\ (r.type_ \in {"dispute", "resolve", "chargeback"} /\ r.amount = <<>>) =>
         /\ v.ok
         /\ v.value =
              [client |-> r.client, tx |-> r.tx,
               detail |-> [kind |-> KindOf(r.type_)]]

\* A withdrawal row with an amount has been converted to a Withdrawal of
\* its client and tx.
C13_Witness ==
  /\ validated # <<>>
  /\ row[1].type_ = "withdrawal"
  /\ row[1].amount # <<>>
  /\ validated[1].ok
  /\ validated[1].value.client = row[1].client
  /\ validated[1].value.detail.kind = "Withdrawal"

\* C14: every step that consumes a row applies exactly that one
\* transaction to the ledger, the rows being taken one at a time in input
\* order; the run never aborts while applying a transaction, and it
\* eventually reaches the point where the summary is produced (the loop
\* is left, and by the second conjunct not by a step that applies a row).
C14_RunCompletes ==
  /\ [][rows' # rows =>
         /\ rows' = rows + 1
         /\ \E t \in Inputs :
              accounts' = Apply(accounts, t, overflow_checks).accounts]_vars
  /\ [][rows' # rows => pc' = "running"]_vars
  /\ <>(pc # "running")

\* C15: the ledger starts without accounts, and applying a transaction for
\* client c, accepted or rejected, leaves exactly the accounts there were
\* and the one of c (so an account exists exactly for the clients of the
\* transactions applied so far, one per client, and none is removed); when
\* c had no account, the transaction's action is applied to an account of
\* c with available = 0, held = 0, locked = false and no deposit records.
C15_LazyAccounts ==
  /\ rows = 0 => accounts = <<>>
  /\ DOMAIN accounts \subseteq Client
  /\ Reading =>
       \A t \in Inputs :
         LET after == Result(t).accounts IN
         /\ DOMAIN after = DOMAIN accounts \cup {t.client}
         /\ t.client \notin DOMAIN accounts =>
              after[t.client] =
                account_handle_transaction(
                  [client |-> t.client, held |-> 0, available |-> 0,
                   locked |-> FALSE, transactions |-> <<>>],
                  t, overflow_checks).acct

\* A rejected transaction of a client without account is about to create
\* the account, next to the account of another client.
C15_Witness ==
  /\ Reading
  /\ accounts # <<>>
  /\ \E t \in InputsOf({"Dispute"}) :
       /\ t.client \notin DOMAIN accounts
       /\ Result(t).res = ErrNotFound
       /\ t.client \in DOMAIN Result(t).accounts

\* t names a transaction id that the account of its client, which is not
\* locked, has no record of, while another client has a record of it.
OnlyOtherClientHasRecord(t) ==
  /\ ~AccountOf(t.client).locked
  /\ ~HasRecord(t)
  /\ \E d \in DOMAIN accounts \ {t.client} :
       t.tx \in DOMAIN accounts[d].transactions

\* C16: applying a transaction of client c, accepted or rejected, leaves
\* the account of every other client as it was; a Dispute, Resolve or
\* ChargeBack of c that names a transaction id of which only another
\* client has a record is rejected with TransactionNotFound, and a Deposit
\* of c with such an id is accepted and recorded for c.
C16_OtherAccountsUntouched ==
  Reading =>
    \A t \in Inputs :
      LET r == Result(t) IN
      /\ \A d \in DOMAIN accounts \ {t.client} : r.accounts[d] = accounts[d]
      /\ (t.detail.kind \in {"Dispute", "Resolve", "ChargeBack"}
            /\ OnlyOtherClientHasRecord(t)) => r.res = ErrNotFound
      /\ (t.detail.kind = "Deposit" /\ OnlyOtherClientHasRecord(t)) =>
           /\ r.res = Ok
           /\ t.tx \in DOMAIN r.accounts[t.client].transactions

\* C17: a locked account answers AccountLocked whatever else is wrong with
\* the transaction. On an account that is not locked, a Dispute is answered
\* TransactionNotFound without record, else AlreadyDisputed when the record
\* is under dispute, however little is available and without holding the
\* amount again, else InsufficientFunds when the amount exceeds available;
\* a Withdrawal that names a record is answered DuplicateTransaction,
\* however little is available.
C17_RejectionOrder ==
  Reading =>
    \A t \in Inputs :
      LET acct == AccountOf(t.client)
          r == Result(t)
      IN
      /\ acct.locked => r.res = ErrLocked
      /\ (~acct.locked /\ t.detail.kind = "Dispute") =>
           /\ ~HasRecord(t) => r.res = ErrNotFound
           /\ (HasRecord(t) /\ acct.transactions[t.tx].under_dispute) =>
                /\ r.res = ErrAlreadyDisputed
                /\ r.accounts[t.client].held = acct.held
           /\ (/\ HasRecord(t)
               /\ ~acct.transactions[t.tx].under_dispute
               /\ acct.transactions[t.tx].amount > acct.available) =>
                r.res = ErrDispute
      /\ (~acct.locked /\ t.detail.kind = "Withdrawal" /\ HasRecord(t)) =>
           r.res = ErrExists

\* A second Dispute of a deposit under dispute whose amount exceeds what
\* is available, and a Withdrawal that names a record and exceeds what is
\* available.
C17_Witness ==
  /\ Reading
  /\ \E t \in InputsOf({"Dispute"}) :
       /\ HasRecord(t)
       /\ ~accounts[t.client].locked
       /\ accounts[t.client].transactions[t.tx].under_dispute
       /\ accounts[t.client].transactions[t.tx].amount
            > accounts[t.client].available
       /\ Result(t).res = ErrAlreadyDisputed
  /\ \E t \in InputsOf({"Withdrawal"}) :
       /\ HasRecord(t)
       /\ ~accounts[t.client].locked
       /\ t.detail.amount > accounts[t.client].available
       /\ Result(t).res = ErrExists

\* The Resolve that names the deposit of the Dispute t.
ResolveOf(t) ==
  [client |-> t.client, tx |-> t.tx, detail |-> [kind |-> "Resolve"]]

\* C18: when a Dispute is accepted, the Resolve of the same deposit applied
\* right after it is accepted too and leaves the ledger as it was before
\* the Dispute (available, held, locked and every record, the dispute flag
\* false again), and the same Dispute is then accepted again.
C18_DisputeResolveRestores ==
  Reading =>
    \A t \in InputsOf({"Dispute"}) :
      Result(t).res = Ok =>
        LET resolved ==
              Apply(Result(t).accounts, ResolveOf(t), overflow_checks)
        IN
        /\ resolved.res = Ok
        /\ resolved.accounts = accounts
        /\ Apply(resolved.accounts, t, overflow_checks).res = Ok

\* A Dispute is about to be accepted on an account that already holds
\* the amount of another deposit and keeps something available.
C18_Witness ==
  /\ Reading
  /\ \E t \in InputsOf({"Dispute"}) :
       /\ Result(t).res = Ok
       /\ accounts[t.client].held > 0
       /\ Result(t).accounts[t.client].held > accounts[t.client].held
       /\ Apply(Result(t).accounts, ResolveOf(t), overflow_checks).res = Ok

\* C19: a transaction keeps every deposit record of its account with the
\* amount it had; it adds a record only when it is a Deposit that is
\* accepted, and then exactly the record of its tx with its amount, not
\* under dispute; every accepted Deposit adds its record.
C19_RecordsAreAcceptedDeposits ==
  Reading =>
    \A t \in Inputs :
      LET before == AccountOf(t.client).transactions
          after == Result(t).accounts[t.client].transactions
      IN
      /\ DOMAIN before \subseteq DOMAIN after
      /\ \A tx \in DOMAIN before : after[tx].amount = before[tx].amount
      /\ DOMAIN after # DOMAIN before =>
           /\ t.detail.kind = "Deposit"
           /\ Result(t).res = Ok
           /\ DOMAIN after = DOMAIN before \cup {t.tx}
           /\ after[t.tx] =
                [amount |-> t.detail.amount, under_dispute |-> FALSE]
      /\ (t.detail.kind = "Deposit" /\ Result(t).res = Ok) =>
           t.tx \in DOMAIN after \ DOMAIN before

\* An account with a deposit record is about to accept a Withdrawal, to
\* accept a second Deposit and to reject a Deposit that names the record
\* with another amount.
C19_Witness ==
  /\ Reading
  /\ \E c \in DOMAIN accounts :
       /\ accounts[c].transactions # <<>>
       /\ \E t \in InputsOf({"Withdrawal"}) :
            t.client = c /\ Result(t).res = Ok
       /\ \E t \in InputsOf({"Deposit"}) :
            t.client = c /\ Result(t).res = Ok
       /\ \E t \in InputsOf({"Deposit"}) :
            /\ t.client = c
            /\ HasRecord(t)
            /\ t.detail.amount # accounts[c].transactions[t.tx].amount
            /\ Result(t).res = ErrExists

\* C20: every account of the ledger has the client of its key, and no
\* transaction applied through the ledger is answered with the client
\* mismatch error.
C20_ClientIsKey ==
  /\ \A c \in DOMAIN accounts : accounts[c].client = c
  /\ Reading =>
       \A t \in Inputs :
         /\ Result(t).res # ErrOtherClient
         /\ Result(t).accounts[t.client].client = t.client

\* The ledger holds an account for every client, and a transaction of
\* the greatest client is about to be accepted.
C20_Witness ==
  /\ Reading
  /\ DOMAIN accounts = Client
  /\ \E t \in Inputs :
       /\ \A c \in Client : c <= t.client
       /\ Result(t).res = Ok

\* C21: an account is created unlocked; a transaction locks the account
\* of its client exactly when it is an accepted ChargeBack, and it never
\* unlocks an account; after an accepted ChargeBack every ChargeBack of
\* the same client is rejected (so at most one is accepted per account
\* and no deposit is charged back twice).
C21_OneChargeBack ==
  Reading =>
    \A t \in Inputs :
      LET acct == AccountOf(t.client)
          r == Result(t)
          after == r.accounts[t.client]
      IN
      /\ t.client \notin DOMAIN accounts => ~acct.locked
      /\ acct.locked => after.locked
      /\ (t.detail.kind = "ChargeBack" /\ r.res = Ok) =>
           /\ ~acct.locked
           /\ after.locked
           /\ \A u \in InputsOf({"ChargeBack"}) :
                u.client = t.client =>
                  Apply(r.accounts, u, overflow_checks).res = ErrLocked
      /\ (~acct.locked /\ after.locked) =>
           t.detail.kind = "ChargeBack" /\ r.res = Ok

\* A ChargeBack is about to be accepted on an account that has a second
\* deposit under dispute.
C21_Witness ==
  /\ Reading
  /\ \E t \in InputsOf({"ChargeBack"}) :
       /\ Result(t).res = Ok
       /\ \E tx \in DOMAIN accounts[t.client].transactions :
            /\ tx # t.tx
            /\ accounts[t.client].transactions[tx].under_dispute

\* The funds of an account.
Funds(acct) == acct.available + acct.held

\* C22: an account starts with available + held = 0, and a transaction
\* that returns changes available + held of its account by exactly: plus
\* the amount for an accepted Deposit, minus the amount for an accepted
\* Withdrawal, minus the amount of the deposit for an accepted ChargeBack,
\* and nothing for a Dispute, a Resolve and every rejected transaction (so
\* available + held is always the accepted Deposits minus the accepted
\* Withdrawals minus the charged-back deposit).
C22_FundsConserved ==
  Reading =>
    \A t \in Inputs :
      LET acct == AccountOf(t.client)
          r == Result(t)
          after == r.accounts[t.client]
      IN
      /\ t.client \notin DOMAIN accounts => Funds(acct) = 0
      /\ r.res = Ok =>
           Funds(after) =
             CASE t.detail.kind = "Deposit" -> Funds(acct) + t.detail.amount
               [] t.detail.kind = "Withdrawal" ->
                    Funds(acct) - t.detail.amount
               [] t.detail.kind = "ChargeBack" ->
                    Funds(acct) - acct.transactions[t.tx].amount
               [] OTHER -> Funds(acct)
      /\ r.res \in Errors => Funds(after) = Funds(acct)

\* C23: no addition of a call leaves the word or aborts the run: an
\* accepted Deposit leaves available = old available + amount, an accepted
\* Dispute leaves held = old held + the amount of the deposit, and every
\* row of the summary has total = available + held, as integers.
C23_NoAdditionOverflows ==
  /\ ~add_overflowed
  /\ Reading =>
       \A t \in InputsOf({"Deposit", "Dispute"}) :
         LET acct == AccountOf(t.client)
             r == Result(t)
             after == r.accounts[t.client]
         IN
         /\ r.res # Panic
         /\ (t.detail.kind = "Deposit" /\ r.res = Ok) =>
              after.available = acct.available + t.detail.amount
         /\ (t.detail.kind = "Dispute" /\ r.res = Ok) =>
              after.held = acct.held + acct.transactions[t.tx].amount
  /\ \A i \in DOMAIN summary :
       summary[i].total = summary[i].available + summary[i].held

\* ------------------------------------------------------------ type check
TypeOK ==
  /\ DOMAIN accounts \subseteq Client
  /\ \A c \in DOMAIN accounts :
       /\ accounts[c].client = c
       /\ accounts[c].held \in U64
       /\ accounts[c].available \in U64
       /\ accounts[c].locked \in BOOLEAN
       /\ DOMAIN accounts[c].transactions \subseteq Tx
       /\ \A tx \in DOMAIN accounts[c].transactions :
            accounts[c].transactions[tx] \in
              [amount : U64, under_dispute : BOOLEAN]
  /\ pc \in {"running", "done", "aborted"}
  /\ rows \in 0..MaxRows
====
